---- MODULE Spec2Model ----
(***************************************************************************)
(* Multi-user Todo backend: password signup/signin, signed bearer tokens   *)
(* with an expiry claim, and per-user CRUD over tasks.  The repository     *)
(* holds two implementations: the UUID-keyed one (src/Todo/app) and the    *)
(* integer-keyed one (src/backend/src).  `variant` selects which of the    *)
(* two a behaviour runs; it is fixed by Init.                              *)
(*                                                                         *)
(* Texts (passwords, titles, descriptions) are sequences of one-character  *)
(* strings, so that trimming and the password rules are computed.  Time is *)
(* counted in ticks of the wall clock; every datetime.utcnow() call of a   *)
(* handler is a read of that clock, and the clock may advance between two  *)
(* reads of the same handler.                                              *)
(***************************************************************************)
EXTENDS Integers, Sequences, FiniteSets, TLC

VARIABLES
    variant,    \* "uuid" (src/Todo/app) or "int" (src/backend/src)
    users,      \* the users table: a set of rows
    tasks,      \* the tasks table: a set of rows
    user_seq,   \* number of user ids handed out (uuid4 / autoincrement)
    task_seq,   \* number of task ids handed out
    now,        \* the wall clock (datetime.utcnow)
    resp,       \* the last request and its response
    inflight    \* per worker: the request it is serving and where it stands

vars == <<variant, users, tasks, user_seq, task_seq, now, resp, inflight>>

----------------------------------------------------------------------------
(* Bounds of the model *)

MaxTasks == 1
MaxTime == 2

(* Tasks there can be where only create, toggle and list requests are made *)
MaxListTasks == 2

(* Workers that serve requests at the same time *)
MaxWorkers == 2

(* Token time-to-live of each variant, counted in ticks of the model's clock *)
(* (the settings count it in minutes and in days)                          *)
JWT_EXPIRE_MINUTES == 1
JWT_EXPIRY_DAYS == 2

BETTER_AUTH_SECRET == "secret"
WrongSecret == "wrong-secret-key"

----------------------------------------------------------------------------
(* Identifiers and their string forms *)

UuidText == <<"uuid-1", "uuid-2", "uuid-3", "uuid-4", "uuid-5">>
IntText == <<"1", "2", "3", "4", "5">>

\* str(id): the canonical text of a UUID, the decimal text of an integer
Str(v, id) == IF v = "uuid" THEN UuidText[id] ELSE IntText[id]

\* uuid.UUID(text) / int(text): the id a text denotes, 0 when it denotes none
ParseId(v, text) ==
    LET table == IF v = "uuid" THEN UuidText ELSE IntText
    IN  IF \E i \in DOMAIN table : table[i] = text
        THEN CHOOSE i \in DOMAIN table : table[i] = text
        ELSE 0

----------------------------------------------------------------------------
(* Texts *)

None == <<"None">>

Upper == {"A", "X"}
Lower == {"a", "b", "c", "d", "e", "f", "g", "x", "y", "k", "w"}
Digit == {"1", "2"}
Space == {" "}

StrongPass1 == <<"A", "b", "c", "d", "e", "f", "g", "1">>
StrongPass2 == <<"X", "b", "c", "d", "e", "f", "g", "2">>
LowerPass == <<"a", "b", "c", "d", "e", "f", "g", "1">>
WeakPass == <<"w", "e", "a", "k">>
Passwords == {StrongPass1, StrongPass2, LowerPass, WeakPass}

Emails == {"a@x.com", "b@x.com"}

RECURSIVE LStrip(_)
LStrip(s) == IF s # <<>> /\ Head(s) \in Space THEN LStrip(Tail(s)) ELSE s

RECURSIVE RStrip(_)
RStrip(s) ==
    IF s # <<>> /\ s[Len(s)] \in Space THEN RStrip(SubSeq(s, 1, Len(s) - 1)) ELSE s

\* str.strip()
Strip(s) == RStrip(LStrip(s))

AnyChar(s, class) == \E i \in DOMAIN s : s[i] \in class

----------------------------------------------------------------------------
(* Credential hasher: passlib bcrypt *)

Salts == {"s1"}

hash_password_with(password, salt) == <<"$2b$", salt>> \o password

\* Fault: a hasher that stores the password as it is
hash_password_plain(password, salt) == password

\* Fault: a verification that accepts every password
verify_password_any(plain_password, hashed_password) == TRUE

verify_password(plain_password, hashed_password) ==
    /\ Len(hashed_password) >= 2
    /\ hashed_password[1] = "$2b$"
    /\ hashed_password = <<"$2b$", hashed_password[2]>> \o plain_password

----------------------------------------------------------------------------
(* Token service: python-jose HS256 *)

\* jwt.encode(payload, key): the claims together with the key that signed them
jwt_encode(claims, key) == [wf |-> TRUE, key |-> key, claims |-> claims]

MalformedToken == [wf |-> FALSE, key |-> "", claims |-> [c \in {} |-> 0]]

\* A request without an Authorization header
NoHeader == [absent |-> TRUE]

\* Fault: a decoder that never reads `exp`
jwt_decode_ok_noexp(token, t, verify_exp) ==
    /\ token.wf
    /\ token.key = BETTER_AUTH_SECRET
    /\ "sub" \in DOMAIN token.claims => token.claims.sub.t = "str"

\* jwt.decode(token, secret, algorithms, options): TRUE when it raises no
\* JWTError: the token parses, the signature matches, `exp` (when present and
\* when verified) is not earlier than the clock, `sub` (when present) is a string
jwt_decode_ok(token, t, verify_exp) ==
    /\ token.wf
    /\ token.key = BETTER_AUTH_SECRET
    /\ ("exp" \in DOMAIN token.claims /\ verify_exp) => ~(token.claims.exp < t)
    /\ "sub" \in DOMAIN token.claims => token.claims.sub.t = "str"

JStr(s) == [t |-> "str", v |-> s]
\* A JSON number, by its decimal text
JNum(n) == [t |-> "num", v |-> n]
JNull == [t |-> "null"]
JBool(b) == [t |-> "bool", v |-> b]

create_jwt_token(user_id, email, t1, t2) ==
    jwt_encode([sub |-> JStr(Str("uuid", user_id)), email |-> email,
                exp |-> t1 + JWT_EXPIRE_MINUTES, iat |-> t2],
               BETTER_AUTH_SECRET)

create_access_token(user_id, email, t1) ==
    jwt_encode([sub |-> JStr(Str("int", user_id)), email |-> email,
                exp |-> t1 + JWT_EXPIRY_DAYS],
               BETTER_AUTH_SECRET)

\* decode_jwt_token / AuthService.decode_token: the payload, or None
decode_token(token, t) == IF jwt_decode_ok(token, t, TRUE) THEN {token.claims} ELSE {}

verify_token_signature(token, t) == jwt_decode_ok(token, t, FALSE)

extract_user_id_from_token(token, t) ==
    IF decode_token(token, t) # {} /\ "sub" \in DOMAIN token.claims
    THEN {token.claims.sub.v}
    ELSE {}

----------------------------------------------------------------------------
(* Request validation (pydantic schemas) *)

\* Fault: SignupRequest without validate_password_strength
ValidSignupPassword_length_only(v, pw) ==
    IF v = "uuid" THEN Len(pw) >= 8 /\ Len(pw) <= 72
    ELSE Len(pw) >= 8 /\ Len(pw) <= 128

\* SignupRequest / UserCreate: the password rule of each variant
ValidSignupPassword(v, pw) ==
    IF v = "uuid"
    THEN /\ Len(pw) >= 8 /\ Len(pw) <= 72
         /\ AnyChar(pw, Upper) /\ AnyChar(pw, Lower) /\ AnyChar(pw, Digit)
    ELSE Len(pw) >= 8 /\ Len(pw) <= 128


\* A JSON body: a function from the names of the fields it carries to their
\* JSON values.  Field(body, f) is the value, Unset when the body lacks f
Has(body, f) == f \in DOMAIN body
IsStr(body, f) == Has(body, f) /\ body[f].t = "str"
IsNull(body, f) == Has(body, f) /\ body[f].t = "null"
IsBool(body, f) == Has(body, f) /\ body[f].t = "bool"
EmptyBody == [f \in {} |-> JNull]

\* TaskCreate of the UUID variant: title is a required string of 1..255
\* characters that is not whitespace only; description is an optional string
TaskCreateValidUuid(body) ==
    /\ IsStr(body, "title")
    /\ Len(body.title.v) >= 1 /\ Len(body.title.v) <= 255
    /\ Strip(body.title.v) # <<>>
    /\ Has(body, "description") => (IsStr(body, "description") \/ IsNull(body, "description"))

\* TaskCreate of the integer variant: title is a required string of at most
\* 255 characters; description is an optional string
TaskCreateValidInt(body) ==
    /\ IsStr(body, "title")
    /\ Len(body.title.v) <= 255
    /\ Has(body, "description") => (IsStr(body, "description") \/ IsNull(body, "description"))

TaskCreateValid(v, body) ==
    IF v = "uuid" THEN TaskCreateValidUuid(body) ELSE TaskCreateValidInt(body)

\* The fields TaskCreate hands to the service: fields the schema does not
\* declare are dropped
TaskCreateData(v, body) ==
    [title |-> IF v = "uuid" THEN Strip(body.title.v) ELSE body.title.v,
     description |-> IF IsStr(body, "description") THEN body.description.v ELSE None]

\* Fault: TaskUpdate of the UUID variant without validate_status
TaskUpdateValidUuid_any_status(body) ==
    /\ Has(body, "title") =>
          \/ IsNull(body, "title")
          \/ /\ IsStr(body, "title")
             /\ Len(body.title.v) >= 1 /\ Len(body.title.v) <= 255
             /\ Strip(body.title.v) # <<>>
    /\ Has(body, "description") => (IsStr(body, "description") \/ IsNull(body, "description"))
    /\ Has(body, "status") => (IsNull(body, "status") \/ IsStr(body, "status"))

\* TaskUpdate of the UUID variant
TaskUpdateValidUuid(body) ==
    /\ Has(body, "title") =>
          \/ IsNull(body, "title")
          \/ /\ IsStr(body, "title")
             /\ Len(body.title.v) >= 1 /\ Len(body.title.v) <= 255
             /\ Strip(body.title.v) # <<>>
    /\ Has(body, "description") => (IsStr(body, "description") \/ IsNull(body, "description"))
    /\ Has(body, "status") =>
          \/ IsNull(body, "status")
          \/ IsStr(body, "status") /\ body.status.v \in {"pending", "completed"}

\* TaskUpdate of the integer variant
TaskUpdateValidInt(body) ==
    /\ Has(body, "title") =>
          \/ IsNull(body, "title")
          \/ IsStr(body, "title") /\ Len(body.title.v) <= 255
    /\ Has(body, "description") => (IsStr(body, "description") \/ IsNull(body, "description"))
    /\ Has(body, "completed") => (IsBool(body, "completed") \/ IsNull(body, "completed"))

TaskUpdateValid(v, body) ==
    IF v = "uuid" THEN TaskUpdateValidUuid(body) ELSE TaskUpdateValidInt(body)

\* The columns of the tasks table a TaskUpdate can carry
UpdateFields(v) ==
    IF v = "uuid" THEN {"title", "description", "status"}
    ELSE {"title", "description", "completed"}

\* Fault: a dump that also lists the fields the request did not set
model_dump_defaults(v, body) ==
    [f \in UpdateFields(v) |->
        IF Has(body, f) /\ body[f].t # "null" THEN body[f].v ELSE None]

\* task_data.model_dump(exclude_unset=True): the fields the request set, with
\* the values the validators return (None for JSON null)
model_dump(v, body) ==
    [f \in DOMAIN body \cap UpdateFields(v) |->
        IF body[f].t = "null" THEN None
        ELSE IF f = "title" /\ v = "uuid" THEN Strip(body[f].v)
        ELSE body[f].v]

----------------------------------------------------------------------------
(* Stores *)

\* Fault: a lookup by email that finds nobody
UserByEmailNone(email) == {}

UserByEmail(email) == {u \in users : u.email = email}
UserById(id) == {u \in users : u.id = id}
TaskById(id) == {t \in tasks : t.id = id}

\* The clock reads of one handler: the first read is `now`; a later read
\* returns the same tick or the next one
LaterReads(t) == {t2 \in {t, t + 1} : t2 <= MaxTime}

----------------------------------------------------------------------------
(* Authorization guard *)

\* Fault: a rejection that is raised after the handler has read the task
Rejected_after_task_read(status, steps) ==
    [ok |-> FALSE, status |-> status, user |-> 0, steps |-> steps \cup {"task_read"}]

Rejected(status, steps) == [ok |-> FALSE, status |-> status, user |-> 0, steps |-> steps]
Authenticated(user, steps) == [ok |-> TRUE, status |-> 200, user |-> user, steps |-> steps]

\* security = HTTPBearer(): a request without credentials is rejected by the
\* framework before the dependency body runs; its status is 401 or 403
\* depending on the framework release (the two test suites pin one each)
HTTPBearerRejections == {401, 403}

\* get_current_user of the UUID variant
get_current_user_uuid(header) ==
    IF header = NoHeader
    THEN {Rejected(s, {}) : s \in HTTPBearerRejections}
    ELSE IF ~jwt_decode_ok(header, now, TRUE)
    THEN {Rejected(401, {"verify"})}
    ELSE IF ~Has(header.claims, "sub")
    THEN {Rejected(401, {"verify"})}
    ELSE LET id == ParseId("uuid", header.claims.sub.v)
         IN  IF id = 0
             THEN {Rejected(500, {"verify", "user_read"})}
             ELSE IF UserById(id) = {}
             THEN {Rejected(401, {"verify", "user_read"})}
             ELSE {Authenticated(id, {"verify", "user_read"})}

\* get_current_user of the integer variant
get_current_user_int(header) ==
    IF header = NoHeader
    THEN {Rejected(s, {}) : s \in HTTPBearerRejections}
    ELSE IF decode_token(header, now) = {} \/ DOMAIN header.claims = {}
    THEN {Rejected(401, {"verify"})}
    ELSE IF ~Has(header.claims, "sub")
    THEN {Rejected(500, {"verify"})}
    ELSE LET id == ParseId("int", header.claims.sub.v)
         IN  IF id = 0
             THEN {Rejected(500, {"verify"})}
             ELSE IF UserById(id) = {}
             THEN {Rejected(401, {"verify", "user_read"})}
             ELSE {Authenticated(id, {"verify", "user_read"})}

\* Fault: a guard that takes the user from the email claim of the token
get_current_user_by_email(header) ==
    IF header = NoHeader \/ ~jwt_decode_ok(header, now, TRUE)
    THEN {Rejected(401, {"verify"})}
    ELSE IF ~Has(header.claims, "email")
    THEN {Rejected(401, {"verify"})}
    ELSE IF UserByEmail(header.claims.email) = {}
    THEN {Rejected(401, {"verify", "user_read"})}
    ELSE {Authenticated(u.id, {"verify", "user_read"}) : u \in UserByEmail(header.claims.email)}

\* Fault: a guard that trusts the subject of a verified token without
\* looking the user up
get_current_user_no_lookup(header) ==
    IF \/ header = NoHeader
       \/ ~jwt_decode_ok(header, now, TRUE)
       \/ ~Has(header.claims, "sub")
       \/ ParseId(variant, header.claims.sub.v) = 0
    THEN {Rejected(401, {"verify"})}
    ELSE {Authenticated(ParseId(variant, header.claims.sub.v), {"verify"})}

get_current_user(header) ==
    IF variant = "uuid" THEN get_current_user_uuid(header) ELSE get_current_user_int(header)

----------------------------------------------------------------------------
(* Task service *)

\* Fault: a list query without the owner condition
get_user_tasks_of_all(user_id) == tasks

\* task_service.get_user_tasks / TaskService.get_tasks_by_user (no filter)
get_user_tasks(user_id) == {t \in tasks : t.user_id = user_id}

\* Fault: an ownership check that passes everybody
validate_task_ownership_skipped(task, user_id) == TRUE

\* task_service.validate_task_ownership
validate_task_ownership(task, user_id) == task.user_id = user_id

\* TaskService.get_task_by_id of the integer variant: the row, if the caller owns it
get_task_by_id_int(task_id, user_id) == {t \in TaskById(task_id) : t.user_id = user_id}

\* task_service.create_task / TaskService.create_task: the new row
create_task(v, id, user_id, data, t1, t2) ==
    IF v = "uuid"
    THEN [id |-> id, user_id |-> user_id, title |-> data.title,
          description |-> data.description, status |-> "pending",
          created_at |-> t1, updated_at |-> t2]
    ELSE [id |-> id, user_id |-> user_id, title |-> data.title,
          description |-> data.description, completed |-> FALSE,
          created_at |-> t1, updated_at |-> t2]

\* Fault: an update that leaves updated_at as it was
update_task_unstamped(task, update_data, t) ==
    [f \in DOMAIN task |->
        IF f \in DOMAIN update_data THEN update_data[f] ELSE task[f]]

\* Fault: an update that stamps created_at as well
update_task_restamps(task, update_data, t) ==
    [f \in DOMAIN task |->
        IF f \in {"updated_at", "created_at"} THEN t
        ELSE IF f \in DOMAIN update_data THEN update_data[f]
        ELSE task[f]]

\* update_task: setattr for every dumped field, then updated_at
update_task(task, update_data, t) ==
    [f \in DOMAIN task |->
        IF f = "updated_at" THEN t
        ELSE IF f \in DOMAIN update_data THEN update_data[f]
        ELSE task[f]]

\* The columns declared NOT NULL that a TaskUpdate can carry
NotNullFields(v) == IF v = "uuid" THEN {"title", "status"} ELSE {"title", "completed"}

\* Fault: a toggle that marks the task completed whatever it was
mark_task_completed(v, task, t) ==
    IF v = "uuid" THEN [task EXCEPT !.status = "completed", !.updated_at = t]
    ELSE [task EXCEPT !.completed = TRUE, !.updated_at = t]

\* toggle_task_completion
toggle_task_completion(v, task, t) ==
    IF v = "uuid"
    THEN [task EXCEPT !.status = IF task.status = "completed" THEN "pending" ELSE "completed",
                      !.updated_at = t]
    ELSE [task EXCEPT !.completed = ~task.completed, !.updated_at = t]

----------------------------------------------------------------------------
(* Task routes: what a handler does once the guard has authenticated `user`. *)
(* A result is the response and the store the handler leaves.               *)

Result(status, body, steps, tasks_after, seq_after, now_after) ==
    [status |-> status, body |-> body, steps |-> steps,
     tasks |-> tasks_after, task_seq |-> seq_after, now |-> now_after]

Failure(status, steps) == Result(status, {}, steps, tasks, task_seq, now)

\* Fault: the path check left out
PathMismatchIgnored(user, path_user) == FALSE

\* The routes of the UUID variant compare the token's user with the path's
PathMismatch(user, path_user) ==
    variant = "uuid" /\ Str("uuid", user) # Str("uuid", path_user)

\* TaskService.get_tasks_by_user: the `completed` query parameter of the integer
\* variant, {} when the request has none, narrows the rows to one flag value
get_tasks_by_user(user_id, completed) ==
    {t \in get_user_tasks(user_id) : completed = {} \/ t.completed \in completed}

\* ORDER BY created_at DESC: the orders in which the database may return the
\* rows; rows with equal created_at come in either order
Descending(seq) ==
    \A i \in DOMAIN seq, j \in DOMAIN seq : i < j => seq[i].created_at >= seq[j].created_at

Orderings(rows) ==
    {seq \in [1..Cardinality(rows) -> rows] :
        /\ \A i \in DOMAIN seq, j \in DOMAIN seq : i # j => seq[i] # seq[j]
        /\ Descending(seq)}

\* The list routes with their ordered response: the responses the request can get
list_tasks_ordered(user, path_user, completed) ==
    IF PathMismatch(user, path_user) THEN {[status |-> 403, listing |-> <<>>]}
    ELSE {[status |-> 200, listing |-> seq] :
             seq \in Orderings(get_tasks_by_user(
                        IF variant = "uuid" THEN path_user ELSE user, completed))}

\* GET /api/{user_id}/tasks (uuid), GET /api/tasks (int)
list_tasks(user, path_user) ==
    IF PathMismatch(user, path_user) THEN Failure(403, {})
    ELSE Result(200,
                get_user_tasks(IF variant = "uuid" THEN path_user ELSE user),
                {"task_read"}, tasks, task_seq, now)

\* POST /api/{user_id}/tasks (uuid), POST /api/tasks (int)
create_task_route(user, path_user, body, t2) ==
    IF ~TaskCreateValid(variant, body) THEN Failure(422, {})
    ELSE IF PathMismatch(user, path_user) THEN Failure(403, {})
    ELSE LET task == create_task(variant, task_seq + 1,
                                 IF variant = "uuid" THEN path_user ELSE user,
                                 TaskCreateData(variant, body), now, t2)
         IN  Result(201, {task}, {"task_write"}, tasks \cup {task}, task_seq + 1, t2)

\* The task a route acts on: the row with that id; the UUID variant then
\* checks its owner (403), the integer variant reports a row of another owner
\* as missing (404)
Lookup(user, path_user, task_id) ==
    IF PathMismatch(user, path_user) THEN [status |-> 403, steps |-> {}, task |-> {}]
    ELSE IF variant = "uuid"
    THEN IF TaskById(task_id) = {}
         THEN [status |-> 404, steps |-> {"task_read"}, task |-> {}]
         ELSE IF \E t \in TaskById(task_id) : ~validate_task_ownership(t, path_user)
         THEN [status |-> 403, steps |-> {"task_read"}, task |-> {}]
         ELSE [status |-> 200, steps |-> {"task_read"}, task |-> TaskById(task_id)]
    ELSE IF get_task_by_id_int(task_id, user) = {}
         THEN [status |-> 404, steps |-> {"task_read"}, task |-> {}]
         ELSE [status |-> 200, steps |-> {"task_read"},
               task |-> get_task_by_id_int(task_id, user)]

\* Fault: a get that stamps the task it returns
get_task_touching(user, path_user, task_id) ==
    LET found == Lookup(user, path_user, task_id)
    IN  IF found.status # 200 THEN Failure(found.status, found.steps)
        ELSE LET old == CHOOSE t \in found.task : TRUE
                 new == [old EXCEPT !.updated_at = now]
             IN  Result(200, {new}, found.steps, (tasks \ {old}) \cup {new}, task_seq, now)

\* GET .../tasks/{task_id}
get_task(user, path_user, task_id) ==
    LET found == Lookup(user, path_user, task_id)
    IN  IF found.status # 200 THEN Failure(found.status, found.steps)
        ELSE Result(200, found.task, found.steps, tasks, task_seq, now)

\* PUT and PATCH .../tasks/{task_id}
update_task_route(user, path_user, task_id, body) ==
    IF ~TaskUpdateValid(variant, body) THEN Failure(422, {})
    ELSE LET found == Lookup(user, path_user, task_id)
         IN  IF found.status # 200 THEN Failure(found.status, found.steps)
             ELSE IF \E f \in NotNullFields(variant) : IsNull(body, f)
             THEN Failure(500, found.steps \cup {"task_write"})
             ELSE LET old == CHOOSE t \in found.task : TRUE
                      new == update_task(old, model_dump(variant, body), now)
                  IN  Result(200, {new}, found.steps \cup {"task_write"},
                             (tasks \ {old}) \cup {new}, task_seq, now)

\* PATCH .../tasks/{task_id}/complete
toggle_route(user, path_user, task_id) ==
    LET found == Lookup(user, path_user, task_id)
    IN  IF found.status # 200 THEN Failure(found.status, found.steps)
        ELSE LET old == CHOOSE t \in found.task : TRUE
                 new == toggle_task_completion(variant, old, now)
             IN  Result(200, {new}, found.steps \cup {"task_write"},
                        (tasks \ {old}) \cup {new}, task_seq, now)

\* Fault: a delete that answers 204 and leaves the row
delete_task_route_keeps(user, path_user, task_id) ==
    LET found == Lookup(user, path_user, task_id)
    IN  IF found.status # 200 THEN Failure(found.status, found.steps)
        ELSE Result(204, {}, found.steps \cup {"task_write"}, tasks, task_seq, now)

\* DELETE .../tasks/{task_id}
delete_task_route(user, path_user, task_id) ==
    LET found == Lookup(user, path_user, task_id)
    IN  IF found.status # 200 THEN Failure(found.status, found.steps)
        ELSE Result(204, {}, found.steps \cup {"task_write"},
                    tasks \ found.task, task_seq, now)

----------------------------------------------------------------------------
(* Authentication routes *)

AuthResult(status, user_id, token, steps, users_after, seq_after, now_after) ==
    [status |-> status, user_id |-> user_id, token |-> token, steps |-> steps,
     users |-> users_after, user_seq |-> seq_after, now |-> now_after]

NoToken == [absent |-> TRUE]

NoUserId == IF variant = "uuid" THEN "" ELSE 0

AuthFailure(status, steps) ==
    AuthResult(status, NoUserId, NoToken, steps, users, user_seq, now)

\* The token a route issues: create_jwt_token reads the clock twice (exp, then
\* iat), create_access_token once
IssueToken(user, t2) ==
    IF variant = "uuid" THEN create_jwt_token(user.id, user.email, now, t2)
    ELSE create_access_token(user.id, user.email, now)

\* hash_password / AuthService.hash_password
hash_password(password, salt) == hash_password_with(password, salt)

\* POST /api/auth/signup (uuid), POST /api/auth/register (int)
signup(email, password, salt, t2) ==
    IF ~ValidSignupPassword(variant, password) THEN AuthFailure(422, {})
    ELSE IF UserByEmail(email) # {} THEN AuthFailure(400, {"user_read"})
    ELSE LET user == [id |-> user_seq + 1, email |-> email,
                      password_hash |-> hash_password(password, salt)]
         IN  AuthResult(201, IF variant = "uuid" THEN Str("uuid", user.id) ELSE user.id,
                        IssueToken(user, t2), {"user_read", "user_write"},
                        users \cup {user}, user.id,
                        IF variant = "uuid" THEN t2 ELSE now)

\* POST /api/auth/signin (uuid), POST /api/auth/login (int)
signin(email, password, t2) ==
    IF \A u \in UserByEmail(email) : ~verify_password(password, u.password_hash)
    THEN AuthFailure(401, {"user_read"})
    ELSE LET user == CHOOSE u \in UserByEmail(email) : TRUE
         IN  AuthResult(200, IF variant = "uuid" THEN Str("uuid", user.id) ELSE user.id,
                        IssueToken(user, t2), {"user_read"},
                        users, user_seq, IF variant = "uuid" THEN t2 ELSE now)

----------------------------------------------------------------------------
(* Requests *)

TitleX == <<"x">>
TitlePadded == <<" ", "y", " ">>
TitleBlank == <<" ">>
TitleEmpty == <<>>
Desc == <<"d">>

\* Every email can sign up once, so user ids stay within 1..Cardinality(Emails)
MaxUsers == Cardinality(Emails)

PathUsers == IF variant = "uuid" THEN 1..MaxUsers ELSE {0}
TaskIdsIn == 1..MaxTasks

\* Bearer tokens a client can present: signed with the secret or with another
\* key; expired by one tick, expiring now or later; with, without or with an
\* ill-formed subject
Claims(sub, exp) == [sub |-> JStr(sub), exp |-> exp]

\* The `sub` claims of those tokens: the ids of the users there can be, a text
\* that denotes no id, a number
SubjectValues == {JStr(Str(variant, u)) : u \in 1..MaxUsers} \cup {JStr("junk"), JNum("1")}

Tokens ==
    {jwt_encode([sub |-> sub, exp |-> exp], key) :
        sub \in SubjectValues, exp \in {now - 1, now, now + 1},
        key \in {BETTER_AUTH_SECRET, WrongSecret}}
    \cup {jwt_encode([exp |-> exp], BETTER_AUTH_SECRET) : exp \in {now - 1, now}}
    \cup {MalformedToken}

AllHeaders == Tokens \cup {NoHeader}

\* The headers the requests of a behaviour carry
Headers ==
    {NoHeader, MalformedToken,
     jwt_encode(Claims(Str(variant, 1), now), WrongSecret),
     jwt_encode(Claims(Str(variant, 1), now - 1), BETTER_AUTH_SECRET),
     jwt_encode(Claims("junk", now), BETTER_AUTH_SECRET),
     jwt_encode([exp |-> now], BETTER_AUTH_SECRET)}
    \cup {jwt_encode(Claims(Str(variant, u), now), BETTER_AUTH_SECRET) : u \in 1..MaxUsers}

FlagField == IF variant = "uuid" THEN "status" ELSE "completed"
FlagSet == IF variant = "uuid" THEN JStr("completed") ELSE JBool(TRUE)
FlagValues ==
    IF variant = "uuid" THEN {FlagSet, JStr("done"), JNull} ELSE {FlagSet, JNull}

\* A body that also carries fields the schemas do not declare
Extras ==
    [title |-> JStr(TitleX), user_id |-> JNum("2"), id |-> JNum("2"),
     status |-> JStr("completed"), completed |-> JBool(TRUE),
     created_at |-> JNum("0"), updated_at |-> JNum("0")]

CreateBodies ==
    {EmptyBody, Extras, [title |-> JStr(TitleBlank)], [title |-> JStr(TitleEmpty)],
     [title |-> JStr(TitlePadded), description |-> JStr(Desc)]}

UpdateBodies ==
    {EmptyBody, [title |-> JStr(TitlePadded)], [title |-> JStr(TitleBlank)],
     [title |-> JNull], [description |-> JStr(Desc)], [description |-> JNull]}
    \cup {[f \in {FlagField} |-> x] : x \in FlagValues}

\* More bodies of an update: undeclared fields alone, and several fields at once
AllUpdateBodies ==
    UpdateBodies
    \cup {[user_id |-> JNum("2"), id |-> JNum("2"), created_at |-> JNum("0")],
          [f \in {"title", FlagField} |-> IF f = "title" THEN JStr(TitleX) ELSE FlagSet]}

----------------------------------------------------------------------------
(* The last request and its response *)

\* What the Authorization header of a request carried
Cred(header) ==
    IF header = NoHeader THEN "none"
    ELSE IF ~header.wf THEN "malformed"
    ELSE IF Has(header.claims, "exp") /\ header.claims.exp < now THEN "expired"
    ELSE IF header.key # BETTER_AUTH_SECRET THEN "forged"
    ELSE "live"

NoRequest ==
    [kind |-> "none", status |-> 0, cred |-> "none", valid |-> FALSE, auth |-> 0,
     path_user |-> 0, task_id |-> 0, fields |-> {}, streak |-> 0, steps |-> {},
     completed |-> {}, listing |-> <<>>,
     email |-> "", password |-> <<>>, user_id |-> NoUserId, token |-> NoToken]

\* A task request the guard rejected: nothing but the header was looked at
GuardResponse(header, g) ==
    [NoRequest EXCEPT !.kind = "rejected", !.status = g.status, !.cred = Cred(header),
                      !.steps = g.steps]

\* The successful toggles of one task that end with this request and have no
\* other request between them, counted up to two
Streak(kind, task_id, r) ==
    IF kind = "toggle" /\ r.status = 200
    THEN IF resp.kind = "toggle" /\ resp.status = 200 /\ resp.task_id = task_id
         THEN 2 ELSE 1
    ELSE 0

TaskResponse(kind, header, g, path_user, task_id, body, r) ==
    [NoRequest EXCEPT !.kind = kind, !.status = r.status, !.cred = Cred(header),
                      !.valid = g.ok, !.auth = g.user, !.path_user = path_user, !.task_id = task_id,
                      !.fields = DOMAIN body, !.streak = Streak(kind, task_id, r),
                      !.steps = g.steps \cup r.steps]

AuthResponse(kind, email, password, r) ==
    [NoRequest EXCEPT !.kind = kind, !.status = r.status, !.email = email,
                      !.password = password, !.user_id = r.user_id,
                      !.token = r.token, !.steps = r.steps]

----------------------------------------------------------------------------
(* Actions.  The guard is a dependency of every task endpoint: the framework *)
(* resolves it before it validates the body and before it calls the endpoint *)
(* function, so a request the guard rejects is answered the same way         *)
(* whichever task endpoint it addressed.                                     *)

Unauthenticated(header) ==
    \E g \in get_current_user(header) :
        /\ ~g.ok
        /\ resp' = GuardResponse(header, g)
        /\ UNCHANGED <<variant, users, tasks, user_seq, task_seq, now, inflight>>

ServeWithin(max, kind, header, g, path_user, task_id, body, r) ==
    /\ g.ok
    /\ r.task_seq <= max
    /\ tasks' = r.tasks
    /\ task_seq' = r.task_seq
    /\ now' = r.now
    /\ resp' = TaskResponse(kind, header, g, path_user, task_id, body, r)
    /\ UNCHANGED <<variant, users, user_seq, inflight>>

Serve(kind, header, g, path_user, task_id, body, r) ==
    ServeWithin(MaxTasks, kind, header, g, path_user, task_id, body, r)

ListTasks(header) ==
    \E g \in get_current_user(header), p \in PathUsers :
        Serve("list", header, g, p, 0, EmptyBody, list_tasks(g.user, p))

CreateTask(header) ==
    \E g \in get_current_user(header), p \in PathUsers, b \in CreateBodies,
       t2 \in LaterReads(now) :
        Serve("create", header, g, p, 0, b, create_task_route(g.user, p, b, t2))

GetTask(header) ==
    \E g \in get_current_user(header), p \in PathUsers, id \in TaskIdsIn :
        Serve("get", header, g, p, id, EmptyBody, get_task(g.user, p, id))

UpdateTask(header) ==
    \E g \in get_current_user(header), p \in PathUsers, id \in TaskIdsIn,
       b \in UpdateBodies :
        Serve("update", header, g, p, id, b, update_task_route(g.user, p, id, b))

\* An update with any of the bodies, those with undeclared fields included
UpdateTaskAll(header) ==
    \E g \in get_current_user(header), p \in PathUsers, id \in TaskIdsIn,
       b \in AllUpdateBodies :
        Serve("update", header, g, p, id, b, update_task_route(g.user, p, id, b))

\* Tokens signed with the secret that carry an email claim next to the
\* subject: any email with any subject
EmailTokens ==
    {jwt_encode([sub |-> JStr(Str(variant, u)), email |-> e, exp |-> now],
                BETTER_AUTH_SECRET) : u \in 1..MaxUsers, e \in Emails}

\* GET .../tasks/{task_id} with such a token; the response is recorded with
\* the email the token carried
GetTaskClaimed(header) ==
    \E g \in get_current_user(header), p \in PathUsers, id \in TaskIdsIn :
        LET r == get_task(g.user, p, id)
        IN  /\ g.ok
            /\ resp' = [TaskResponse("get", header, g, p, id, EmptyBody, r)
                           EXCEPT !.email = header.claims.email]
            /\ UNCHANGED <<variant, users, tasks, user_seq, task_seq, now, inflight>>

ToggleTask(header) ==
    \E g \in get_current_user(header), p \in PathUsers, id \in TaskIdsIn :
        Serve("toggle", header, g, p, id, EmptyBody, toggle_route(g.user, p, id))

DeleteTask(header) ==
    \E g \in get_current_user(header), p \in PathUsers, id \in TaskIdsIn :
        Serve("delete", header, g, p, id, EmptyBody, delete_task_route(g.user, p, id))

ServeAuth(kind, email, password, r) ==
    /\ users' = r.users
    /\ user_seq' = r.user_seq
    /\ now' = r.now
    /\ resp' = AuthResponse(kind, email, password, r)
    /\ UNCHANGED <<variant, tasks, task_seq, inflight>>

Signup(email, password) ==
    \E salt \in Salts, t2 \in LaterReads(now) :
        ServeAuth("signup", email, password, signup(email, password, salt, t2))

Signin(email, password) ==
    \E t2 \in LaterReads(now) :
        ServeAuth("signin", email, password, signin(email, password, t2))

\* Create, toggle and list where there can be MaxListTasks tasks; the list
\* response is an ordered one
CreateTaskL(header) ==
    \E g \in get_current_user(header), p \in PathUsers, b \in {Extras},
       t2 \in LaterReads(now) :
        ServeWithin(MaxListTasks, "create", header, g, p, 0, b,
                    create_task_route(g.user, p, b, t2))

ToggleTaskL(header) ==
    \E g \in get_current_user(header), p \in PathUsers, id \in 1..MaxListTasks :
        ServeWithin(MaxListTasks, "toggle", header, g, p, id, EmptyBody,
                    toggle_route(g.user, p, id))

Filters == IF variant = "uuid" THEN {{}} ELSE {{}, {TRUE}, {FALSE}}

ListTasksOrdered(header) ==
    \E g \in {x \in get_current_user(header) : x.ok}, p \in PathUsers, c \in Filters :
        \E r \in list_tasks_ordered(g.user, p, c) :
            /\ resp' = [NoRequest EXCEPT !.kind = "list", !.status = r.status,
                                         !.cred = Cred(header), !.valid = g.ok,
                                         !.auth = g.user, !.path_user = p,
                                         !.steps = g.steps \cup {"task_read"},
                                         !.completed = c,
                                         !.listing = [i \in DOMAIN r.listing |->
                                                         r.listing[i].id]]
            /\ UNCHANGED <<variant, users, tasks, user_seq, task_seq, now, inflight>>

\* The entry points of the token service and the guard, called on their own
TokenCall(kind, token, valid) ==
    /\ resp' = [NoRequest EXCEPT !.kind = kind, !.cred = Cred(token),
                                 !.token = token, !.valid = valid]
    /\ UNCHANGED <<variant, users, tasks, user_seq, task_seq, now, inflight>>

DecodeToken(token) ==
    TokenCall("decode_token", token, decode_token(token, now) # {})

VerifyTokenSignature(token) ==
    /\ variant = "uuid"
    /\ TokenCall("verify_token_signature", token, verify_token_signature(token, now))

ExtractUserIdFromToken(token) ==
    /\ variant = "uuid"
    /\ TokenCall("extract_user_id_from_token", token,
                 extract_user_id_from_token(token, now) # {})

GetCurrentUser(header) ==
    \E g \in get_current_user(header) :
        /\ resp' = [NoRequest EXCEPT !.kind = "get_current_user", !.status = g.status,
                                     !.cred = Cred(header), !.token = header,
                                     !.valid = g.ok, !.auth = g.user, !.steps = g.steps]
        /\ UNCHANGED <<variant, users, tasks, user_seq, task_seq, now, inflight>>

\* A row of the users table deleted in the database (no endpoint does it).
\* The tasks table of the UUID variant references users with ON DELETE
\* CASCADE; the integer variant declares no rule and its database is
\* configured by the environment, so the tasks of the user go or stay.
RemoveUser(id) ==
    /\ UserById(id) # {}
    /\ users' = users \ UserById(id)
    /\ tasks' \in {{t \in tasks : t.user_id # id}}
                  \cup (IF variant = "uuid" THEN {} ELSE {tasks})
    /\ UNCHANGED <<variant, user_seq, task_seq, now, resp, inflight>>

----------------------------------------------------------------------------
(* Requests served at the same time.  A handler of the UUID variant is a     *)
(* plain function, which the framework runs on a thread of its pool; a       *)
(* handler of the integer variant is a coroutine without an await, which one *)
(* process runs to its end and several server processes run side by side.    *)
(* Between the SELECT and the commit of one handler another handler can run. *)
(* A worker serves one request: idle, then checked or loaded, then done.     *)

Workers == 1..MaxWorkers

Idle ==
    [pc |-> "idle", status |-> 0, email |-> "", password |-> <<>>,
     header |-> NoHeader, user |-> 0, task_id |-> 0, row |-> {},
     op |-> "", body |-> EmptyBody, stamp |-> 0, before |-> 0, order |-> 0,
     overlap |-> FALSE]

Done(w, status) == [inflight EXCEPT ![w].pc = "done", ![w].status = status]

\* signup / register_user up to the existence check
SignupCheck(w, email, password) ==
    /\ inflight[w].pc = "idle"
    /\ ValidSignupPassword(variant, password)
    /\ LET at == [inflight EXCEPT ![w].email = email, ![w].password = password]
       IN  IF UserByEmail(email) # {}
           THEN /\ inflight' = [at EXCEPT ![w].pc = "done", ![w].status = 400]
                /\ resp' = AuthResponse("signup", email, password,
                                        AuthFailure(400, {"user_read"}))
           ELSE /\ inflight' = [at EXCEPT ![w].pc = "checked"]
                /\ resp' = resp
    /\ UNCHANGED <<variant, users, tasks, user_seq, task_seq, now>>

\* signup / register_user from session.add to the response.  The email column
\* is unique in both variants: the commit of a second row with the email
\* raises IntegrityError, which no handler catches (the register route catches
\* ValueError only), and the request ends in a 500
SignupInsert(w) ==
    /\ inflight[w].pc = "checked"
    /\ \E salt \in Salts, t2 \in LaterReads(now) :
           LET r == IF UserByEmail(inflight[w].email) # {}
                    THEN AuthFailure(500, {"user_read", "user_write"})
                    ELSE signup(inflight[w].email, inflight[w].password, salt, t2)
           IN  /\ users' = r.users
               /\ user_seq' = r.user_seq
               /\ now' = r.now
               /\ resp' = AuthResponse("signup", inflight[w].email,
                                       inflight[w].password, r)
               /\ inflight' = Done(w, r.status)
    /\ UNCHANGED <<variant, tasks, task_seq>>

\* toggle_task_completion up to the loaded task: the guard, the path check,
\* get_task_by_id and the ownership check
ToggleLoad(w, header, task_id) ==
    /\ inflight[w].pc = "idle"
    /\ \E g \in {x \in get_current_user(header) : x.ok} :
           LET found == Lookup(g.user, IF variant = "uuid" THEN g.user ELSE 0, task_id)
               at == [inflight EXCEPT ![w].header = header, ![w].user = g.user,
                                      ![w].task_id = task_id]
           IN  IF found.status # 200
               THEN /\ inflight' = [at EXCEPT ![w].pc = "done", ![w].status = found.status]
                    /\ resp' = TaskResponse("toggle", header, g,
                                            IF variant = "uuid" THEN g.user ELSE 0,
                                            task_id, EmptyBody,
                                            Failure(found.status, found.steps))
               ELSE /\ inflight' = [at EXCEPT ![w].pc = "loaded", ![w].row = found.task]
                    /\ resp' = resp
    /\ UNCHANGED <<variant, users, tasks, user_seq, task_seq, now>>

\* toggle_task_completion from the assignment to the response: the flag is
\* computed from the task as it was loaded, and the commit updates the columns
\* that were assigned (the flag and updated_at) of the row with that id
ToggleWrite(w) ==
    /\ inflight[w].pc = "loaded"
    /\ \E loaded \in inflight[w].row, stored \in TaskById(inflight[w].task_id) :
           LET assigned == toggle_task_completion(variant, loaded, now)
               new == [f \in DOMAIN stored |->
                          IF f \in {"status", "completed", "updated_at"}
                          THEN assigned[f] ELSE stored[f]]
               g == Authenticated(inflight[w].user, {"verify", "user_read"})
           IN  /\ tasks' = (tasks \ {stored}) \cup {new}
               /\ resp' = TaskResponse("toggle", inflight[w].header, g,
                                       IF variant = "uuid" THEN g.user ELSE 0,
                                       inflight[w].task_id, EmptyBody,
                                       Result(200, {new}, {"task_read", "task_write"},
                                              (tasks \ {stored}) \cup {new}, task_seq, now))
               /\ inflight' = Done(w, 200)
    /\ UNCHANGED <<variant, users, user_seq, task_seq, now>>

\* The bodies of the updates that are served at the same time
RaceBodies == {[description |-> JStr(Desc)], [description |-> JNull]}

\* The one task of the runs with requests served at the same time
CreateTaskR(header) ==
    \E g \in get_current_user(header), p \in PathUsers, t2 \in LaterReads(now),
       b \in {[title |-> JStr(TitlePadded), description |-> JStr(Desc)]} :
        Serve("create", header, g, p, 0, b, create_task_route(g.user, p, b, t2))

\* update_task (op "update") and toggle_task_completion (op "toggle") up to the
\* loaded task: the guard, the validation of the body, the path check,
\* get_task_by_id and the ownership check
Load(w, op, header, task_id, body) ==
    /\ inflight[w].pc = "idle"
    /\ \E g \in {x \in get_current_user(header) : x.ok} :
           LET own == IF variant = "uuid" THEN g.user ELSE 0
               found == IF TaskUpdateValid(variant, body)
                        THEN Lookup(g.user, own, task_id)
                        ELSE [status |-> 422, steps |-> {}, task |-> {}]
               at == [inflight EXCEPT ![w].op = op, ![w].header = header,
                                      ![w].user = g.user, ![w].task_id = task_id,
                                      ![w].body = body]
           IN  IF found.status # 200
               THEN /\ inflight' = [at EXCEPT ![w].pc = "done", ![w].status = found.status]
                    /\ resp' = TaskResponse(op, header, g, own, task_id, body,
                                            Failure(found.status, found.steps))
               ELSE /\ inflight' = [at EXCEPT ![w].pc = "loaded", ![w].row = found.task]
                    /\ resp' = resp
    /\ UNCHANGED <<variant, users, tasks, user_seq, task_seq, now>>

\* task.updated_at = datetime.utcnow(): the handler reads the clock after its
\* assignments and before its commit
Stamp(w) ==
    /\ inflight[w].pc = "loaded"
    /\ inflight[w].op \in {"update", "toggle"}
    /\ inflight' = [inflight EXCEPT ![w].pc = "stamped", ![w].stamp = now]
    /\ UNCHANGED <<variant, users, tasks, user_seq, task_seq, now, resp>>

\* The attributes of the loaded task after the assignments of the handler
Assigned(w, loaded) ==
    IF inflight[w].op = "toggle"
    THEN toggle_task_completion(variant, loaded, inflight[w].stamp)
    ELSE update_task(loaded, model_dump(variant, inflight[w].body), inflight[w].stamp)

\* The workers that have loaded the task of worker w and not committed yet
Overlapping(w) ==
    {v \in Workers \ {w} : /\ inflight[v].pc \in {"loaded", "stamped"}
                           /\ inflight[v].task_id = inflight[w].task_id}

Committed == {v \in Workers : inflight[v].order > 0}

\* session.add, session.commit, session.refresh: the flush writes, with one
\* UPDATE ... WHERE id, the columns whose assigned value differs from the
\* value that was loaded, and no row version is compared.  A null for a column
\* that is NOT NULL, or an UPDATE (or the refresh) that finds no row because the
\* task was deleted meanwhile, raises an error no handler catches: a 500
Commit(w) ==
    /\ inflight[w].pc = "stamped"
    /\ \E loaded \in inflight[w].row :
           LET stored == TaskById(inflight[w].task_id)
               assigned == Assigned(w, loaded)
               written == {f \in DOMAIN loaded : assigned[f] # loaded[f]}
               failed == \/ stored = {}
                         \/ \E f \in NotNullFields(variant) : IsNull(inflight[w].body, f)
               new == {[f \in DOMAIN t |-> IF f \in written THEN assigned[f] ELSE t[f]] :
                          t \in stored}
               after == IF failed THEN tasks ELSE (tasks \ stored) \cup new
               g == Authenticated(inflight[w].user, {"verify", "user_read"})
               r == IF failed
                    THEN Failure(500, {"task_read", "task_write"})
                    ELSE Result(200, new, {"task_read", "task_write"}, after,
                                task_seq, now)
           IN  /\ tasks' = after
               /\ resp' = TaskResponse(inflight[w].op, inflight[w].header, g,
                                       IF variant = "uuid" THEN g.user ELSE 0,
                                       inflight[w].task_id, inflight[w].body, r)
               /\ inflight' =
                      [inflight EXCEPT
                          ![w].pc = "done", ![w].status = r.status,
                          ![w].order = Cardinality(Committed) + 1,
                          ![w].overlap = Overlapping(w) # {},
                          ![w].before = IF stored = {} THEN 0 - 1
                                        ELSE (CHOOSE t \in stored : TRUE).updated_at]
    /\ UNCHANGED <<variant, users, user_seq, task_seq, now>>

\* Time passes between requests
Tick ==
    /\ now < MaxTime
    /\ now' = now + 1
    /\ UNCHANGED <<variant, users, tasks, user_seq, task_seq, resp, inflight>>

----------------------------------------------------------------------------

Init ==
    /\ variant \in {"uuid", "int"}
    /\ users = {}
    /\ tasks = {}
    /\ user_seq = 0
    /\ task_seq = 0
    /\ now = 0
    /\ resp = NoRequest
    /\ inflight = [w \in Workers |-> Idle]

\* The whole API; every user signs up with the same password
Next ==
    \/ \E e \in Emails : Signup(e, StrongPass1)
    \/ \E e \in Emails : Signin(e, StrongPass1)
    \/ \E h \in Headers : Unauthenticated(h)
    \/ \E h \in Headers : ListTasks(h)
    \/ \E h \in Headers : CreateTask(h)
    \/ \E h \in Headers : GetTask(h)
    \/ \E h \in Headers : UpdateTask(h)
    \/ \E h \in Headers : ToggleTask(h)
    \/ \E h \in Headers : DeleteTask(h)
    \/ Tick

Spec == Init /\ [][Next]_vars

\* The authentication endpoints alone, with every password
NextAuth ==
    \/ \E e \in Emails, p \in Passwords : Signup(e, p)
    \/ \E e \in Emails, p \in Passwords : Signin(e, p)
    \/ Tick

SpecAuth == Init /\ [][NextAuth]_vars

\* The task endpoints while users come and go.  Only the users with the first
\* MaxUsers ids are removed, so an email signs up at most twice and the ids
\* stay within the texts of UuidText and IntText
NextRemoval ==
    \/ \E e \in Emails : Signup(e, StrongPass1)
    \/ \E id \in 1..MaxUsers : RemoveUser(id)
    \/ \E h \in Headers : Unauthenticated(h)
    \/ \E h \in Headers : CreateTask(h)
    \/ \E h \in Headers : GetTask(h)
    \/ Tick

SpecRemoval == Init /\ [][NextRemoval]_vars

\* Signups served at the same time
NextSignupRace ==
    \/ \E w \in Workers, e \in Emails : SignupCheck(w, e, StrongPass1)
    \/ \E w \in Workers : SignupInsert(w)
    \/ Tick

SpecSignupRace == Init /\ [][NextSignupRace]_vars

\* Toggles served at the same time
NextToggleRace ==
    \/ \E e \in Emails : Signup(e, StrongPass1)
    \/ \E h \in Headers : CreateTask(h)
    \/ \E w \in Workers, h \in Headers, id \in TaskIdsIn : ToggleLoad(w, h, id)
    \/ \E w \in Workers : ToggleWrite(w)
    \/ Tick

SpecToggleRace == Init /\ [][NextToggleRace]_vars

\* Create, update and toggle, with every body
NextFields ==
    \/ \E e \in Emails : Signup(e, StrongPass1)
    \/ \E h \in Headers : CreateTask(h)
    \/ \E h \in Headers : UpdateTaskAll(h)
    \/ \E h \in Headers : ToggleTask(h)
    \/ Tick

SpecFields == Init /\ [][NextFields]_vars

\* Requests whose tokens carry an email claim
NextClaims ==
    \/ \E e \in Emails : Signup(e, StrongPass1)
    \/ \E h \in Headers : CreateTask(h)
    \/ \E h \in EmailTokens : Unauthenticated(h)
    \/ \E h \in EmailTokens : GetTaskClaimed(h)
    \/ Tick

SpecClaims == Init /\ [][NextClaims]_vars

\* Updates, toggles and deletes of one task served at the same time, by its
\* owner
RaceEmails == {"a@x.com"}

NextRace ==
    \/ \E e \in RaceEmails : Signup(e, StrongPass1)
    \/ \E h \in Headers : CreateTaskR(h)
    \/ \E w \in Workers, h \in Headers, id \in TaskIdsIn, b \in RaceBodies :
           Load(w, "update", h, id, b)
    \/ \E w \in Workers, h \in Headers, id \in TaskIdsIn :
           Load(w, "toggle", h, id, EmptyBody)
    \/ \E w \in Workers : Stamp(w)
    \/ \E w \in Workers : Commit(w)
    \/ \E h \in Headers : DeleteTask(h)
    \/ Tick

SpecRace == Init /\ [][NextRace]_vars

\* The token service and the guard alone, with every token
NextTokens ==
    \/ \E e \in Emails : Signup(e, StrongPass1)
    \/ \E token \in Tokens : DecodeToken(token)
    \/ \E token \in Tokens : VerifyTokenSignature(token)
    \/ \E token \in Tokens : ExtractUserIdFromToken(token)
    \/ \E h \in AllHeaders : GetCurrentUser(h)
    \/ Tick

SpecTokens == Init /\ [][NextTokens]_vars

\* Create, toggle and list alone, with more tasks
NextList ==
    \/ \E e \in Emails : Signup(e, StrongPass1)
    \/ \E h \in Headers : CreateTaskL(h)
    \/ \E h \in Headers : ToggleTaskL(h)
    \/ \E h \in Headers : ListTasksOrdered(h)
    \/ Tick

SpecList == Init /\ [][NextList]_vars

----------------------------------------------------------------------------
(* Properties *)

\* The completion flag of a task row
Flag(t) == IF variant = "uuid" THEN t.status = "completed" ELSE t.completed

\* The tokens that are signed with the secret, not expired, and name user b
LiveTokensOf(b) ==
    {h \in Tokens : /\ h.wf /\ h.key = BETTER_AUTH_SECRET
                    /\ Has(h.claims, "sub") /\ h.claims.sub = JStr(Str(variant, b))
                    /\ h.claims.exp >= now}

Registered(id) == \E u \in users : u.id = id

\* C1: in the UUID variant, whatever the store holds, a request for the task
\* list of an existing user A that presents a valid unexpired token of another
\* existing user B is authenticated as B and answered 403 with no task in the
\* response, and the store is left as it was.
C1_ListOfAnotherUserForbidden ==
    variant = "uuid" =>
        \A a \in PathUsers, b \in PathUsers :
            (a # b /\ Registered(a) /\ Registered(b)) =>
                \A h \in LiveTokensOf(b) : \A g \in get_current_user(h) :
                    /\ g.ok /\ g.user = b
                    /\ LET r == list_tasks(g.user, a)
                       IN  r.status = 403 /\ r.body = {} /\ r.tasks = tasks

C1_Witness ==
    /\ variant = "uuid"
    /\ resp.kind = "list" /\ resp.status = 403 /\ resp.cred = "live"
    /\ resp.auth # resp.path_user
    /\ Registered(resp.auth) /\ Registered(resp.path_user)
    /\ get_user_tasks(resp.path_user) # {}

\* A request that was refused: an error status, no task in the response, the
\* tasks table as it was
Refused(r) == r.status \in {403, 404, 422} /\ r.body = {} /\ r.tasks = tasks

\* C2: in both variants, in every state the API can reach, a get, update,
\* toggle or delete request for a task whose owner is not the user the token
\* authenticates is refused (403, 404, or 422 for an invalid body), returns no
\* task and leaves the tasks table exactly as it was, whatever path and body
\* it carries.
C2_NoAccessToTasksOfOthers ==
    \A h \in AllHeaders : \A g \in get_current_user(h) :
        g.ok =>
            \A t \in tasks :
                t.user_id # g.user =>
                    \A p \in PathUsers :
                        /\ Refused(get_task(g.user, p, t.id))
                        /\ Refused(toggle_route(g.user, p, t.id))
                        /\ Refused(delete_task_route(g.user, p, t.id))
                        /\ \A b \in AllUpdateBodies :
                               Refused(update_task_route(g.user, p, t.id, b))

C2_Witness ==
    /\ resp.kind \in {"get", "update", "toggle", "delete"}
    /\ resp.status \in {403, 404}
    /\ resp.auth # 0
    /\ variant = "uuid" => resp.path_user = resp.auth
    /\ \E t \in TaskById(resp.task_id) : t.user_id # resp.auth

\* The user_id field of an authentication response for the user with that id
ResponseUserId(id) == IF variant = "uuid" THEN Str("uuid", id) ELSE id

\* What an issued token must be for the user u it was issued to
TokenNames(token, u, t) ==
    /\ token # NoToken
    /\ token.key = BETTER_AUTH_SECRET
    /\ jwt_decode_ok(token, t, TRUE)
    /\ token.claims.sub = JStr(Str(variant, u.id))

\* C3: every accepted signup creates one user, and every successful signin
\* matches one user, such that the returned token verifies under the secret,
\* its `sub` is the string form of that user's id, the response's user_id is
\* that id, and the stored password_hash differs from the submitted password.
C3_TokenNamesTheUser ==
    \A e \in Emails, p \in Passwords, t2 \in LaterReads(now) :
        /\ \A salt \in Salts :
              LET r == signup(e, p, salt, t2)
              IN  r.status = 201 =>
                      /\ Cardinality(r.users \ users) = 1
                      /\ \A u \in r.users \ users :
                            /\ u.email = e
                            /\ TokenNames(r.token, u, r.now)
                            /\ r.user_id = ResponseUserId(u.id)
                            /\ u.password_hash # p
        /\ LET r == signin(e, p, t2)
           IN  r.status = 200 =>
                   \E u \in users :
                       /\ u.email = e
                       /\ TokenNames(r.token, u, r.now)
                       /\ r.user_id = ResponseUserId(u.id)
                       /\ u.password_hash # p

C3_Witness ==
    /\ resp.kind = "signin" /\ resp.status = 200
    /\ resp.token # NoToken
    /\ \E u \in users :
          /\ u.email = resp.email /\ u.id = 2
          /\ resp.token.claims.sub = JStr(Str(variant, 2))
          /\ resp.user_id = ResponseUserId(2)

EmailTaken(e) == \E u \in users : u.email = e

\* C4 as stated: in both variants a signup with the email of a stored user is
\* answered 400 whatever password it carries, issues no token and leaves the
\* users table unchanged.
C4_DuplicateEmailAlways400 ==
    \A e \in Emails, p \in Passwords, salt \in Salts, t2 \in LaterReads(now) :
        EmailTaken(e) =>
            LET r == signup(e, p, salt, t2)
            IN  r.status = 400 /\ r.token = NoToken /\ r.users = users

\* C4 amended: in both variants a signup with the email of a stored user
\* issues no token and leaves the users table and the id sequence unchanged;
\* it is answered 400 when its password passes the request schema, and 422
\* (the schema's rejection, which comes first) when it does not.
C4_DuplicateEmailRejected ==
    \A e \in Emails, p \in Passwords, salt \in Salts, t2 \in LaterReads(now) :
        EmailTaken(e) =>
            LET r == signup(e, p, salt, t2)
            IN  /\ r.status = IF ValidSignupPassword(variant, p) THEN 400 ELSE 422
                /\ r.token = NoToken
                /\ r.users = users /\ r.user_seq = user_seq

\* A password that was hashed to `hashed`
Matches(p, hashed) == \E salt \in Salts : hashed = hash_password_with(p, salt)

C4_Witness ==
    /\ resp.kind = "signup" /\ resp.status = 400
    /\ resp.token = NoToken
    /\ \E u \in users : u.email = resp.email /\ ~Matches(resp.password, u.password_hash)

\* C5: in both variants signin answers 200 with a token exactly when a stored
\* user has the given email and the given password is the one that user's hash
\* was made from; in every other case, the email unknown or the password
\* wrong, the response is the same 401 without a token.
C5_SigninIffCredentialsMatch ==
    \A e \in Emails, p \in Passwords, t2 \in LaterReads(now) :
        LET r == signin(e, p, t2)
            known == \E u \in users : u.email = e /\ Matches(p, u.password_hash)
        IN  /\ known => (r.status = 200 /\ r.token # NoToken)
            /\ ~known => r = AuthFailure(401, {"user_read"})

C5_Witness ==
    /\ resp.kind = "signin" /\ resp.status = 401
    /\ EmailTaken(resp.email)
    /\ \E e \in Emails : ~EmailTaken(e) /\ signin(e, resp.password, now).status = 401

\* C6 as stated: every verification entry point (decode_jwt_token /
\* decode_token, verify_token_signature, extract_user_id_from_token, the guard)
\* fails when called on a token whose `exp` is earlier than the clock, whatever
\* its signature, and the guard rejects the request with 401.
C6_ExpiredFailsEverywhere ==
    resp.cred = "expired" =>
        /\ ~resp.valid
        /\ resp.kind = "get_current_user" => resp.status = 401

\* C6 amended: decode_jwt_token / decode_token, extract_user_id_from_token and
\* the guard fail when called on a token whose `exp` is earlier than the clock,
\* whatever its signature, and the guard rejects the request with 401 once the
\* verification has failed, before it reads a user; verify_token_signature
\* does not read `exp`: on such a token it answers whether the signature (and
\* the type of `sub`) is valid.
C6_ExpiredFailsDecoding ==
    resp.cred = "expired" =>
        IF resp.kind = "verify_token_signature"
        THEN resp.valid <=>
                 /\ resp.token.key = BETTER_AUTH_SECRET
                 /\ Has(resp.token.claims, "sub") => resp.token.claims.sub.t = "str"
        ELSE /\ ~resp.valid
             /\ resp.kind = "get_current_user" =>
                    (resp.status = 401 /\ resp.steps = {"verify"})

C6_Witness ==
    /\ resp.kind = "get_current_user" /\ resp.cred = "expired" /\ resp.status = 401
    /\ resp.token.key = BETTER_AUTH_SECRET
    /\ Has(resp.token.claims, "sub")
    /\ \E u \in users : resp.token.claims.sub = JStr(Str(variant, u.id))

\* C7 as stated: a request to a task endpoint without an Authorization header
\* is answered 401 and nothing else has run for it: no token verification, no
\* read of the users table, no read or write of the tasks table.
C7_NoHeaderIs401 ==
    (resp.kind = "rejected" /\ resp.cred = "none") =>
        (resp.status = 401 /\ resp.steps = {})

\* C8 as stated: in both variants, after every accepted create request,
\* whatever owner, flag or timestamps its body carried, the stored task is
\* owned by the caller, is not completed, and has created_at = updated_at (the
\* time of the request).
C8_CreateStampsOnce ==
    (resp.kind = "create" /\ resp.status = 201) =>
        \E t \in TaskById(task_seq) :
            /\ t.user_id = resp.auth
            /\ ~Flag(t)
            /\ t.created_at = t.updated_at

\* The value a field of a body stands for: null is None, a title of the UUID
\* variant comes without its surrounding blanks
Sent(f, x) ==
    IF x.t = "null" THEN None
    ELSE IF f = "title" /\ variant = "uuid" THEN Strip(x.v)
    ELSE x.v

C10_ToggleTwiceRestores ==
    [][(resp'.kind = "toggle" /\ resp'.status = 200 /\ \E h \in Headers : ToggleTask(h)) =>
          \E old \in TaskById(resp'.task_id) :
              /\ \A new \in {t \in tasks' : t.id = old.id} : Flag(new) # Flag(old)
              /\ \E t \in tasks' : t.id = old.id
              /\ LET again == toggle_route(resp.auth, resp.path_user, resp.task_id)'
                 IN  /\ again.status = 200
                     /\ \A t \in again.body : Flag(t) = Flag(old)
                     /\ again.body # {}]_vars

C10_Witness ==
    /\ resp.kind = "toggle" /\ resp.status = 200 /\ resp.streak = 2
    /\ \E t \in TaskById(resp.task_id) : t.user_id = resp.auth /\ ~Flag(t)

\* The ids of the tasks that were created and are no longer stored
DeletedIds == {id \in 1..task_seq : TaskById(id) = {}}

\* The path an authenticated user addresses its own tasks by
OwnPath(user) == IF variant = "uuid" THEN user ELSE 0

\* After a successful delete the row is gone
DeleteRemoves ==
    (resp.kind = "delete" /\ resp.status = 204) => TaskById(resp.task_id) = {}

\* What every caller gets for the id of a deleted task on its own path: 404
\* from get, toggle and delete, the answer `upd` from an update with body b,
\* and a list without that id
GoneFor(id, upd(_)) ==
    \A h \in Headers : \A g \in get_current_user(h) :
        g.ok =>
            LET p == OwnPath(g.user)
            IN  /\ get_task(g.user, p, id).status = 404
                /\ toggle_route(g.user, p, id).status = 404
                /\ delete_task_route(g.user, p, id).status = 404
                /\ \A b \in AllUpdateBodies :
                       update_task_route(g.user, p, id, b).status = upd(b)
                /\ \A t \in list_tasks(g.user, p).body : t.id # id

Always404(b) == 404

ValidOr422(b) == IF TaskUpdateValid(variant, b) THEN 404 ELSE 422

\* C11 as stated: in both variants, once a task has been deleted, every get,
\* update, toggle and delete of its id by its former owner (by any caller, on
\* the caller's own path) is answered 404, and the list does not hold it.
C11_DeletedIsNotFound ==
    \A id \in DeletedIds : GoneFor(id, Always404)

\* C11 amended: in both variants a delete answered 204 has removed the task;
\* the id of a removed task is never stored again; and while it is not stored,
\* every get, toggle and delete of that id, and every update of it with a
\* well-formed body, is answered 404, an update with an ill-formed body is
\* answered 422 (the body is validated first), and the list does not hold it.
C11_DeletedStaysNotFound ==
    [][/\ DeleteRemoves'
       /\ \A id \in DeletedIds : id \in DeletedIds'
       /\ \A id \in DeletedIds' : GoneFor(id, ValidOr422)']_vars

C11_Witness ==
    /\ resp.kind \in {"get", "update", "toggle", "delete"}
    /\ resp.status = 404
    /\ resp.task_id \in DeletedIds
    /\ resp.auth # 0 /\ resp.path_user = OwnPath(resp.auth)

\* The rows of a response
Rows(listing) == {listing[i] : i \in DOMAIN listing}

\* What the list answers an authenticated user on its own path, per filter
Listings(user, completed) ==
    {r.listing : r \in list_tasks_ordered(user, OwnPath(user), completed)}

\* C12: in every reachable state the list endpoint, called by an authenticated
\* user, has an answer, and each answer it can give is 200 with exactly the
\* stored tasks owned by that user, each once, in descending order of
\* created_at; in the integer variant the answer to ?completed=true (false) is
\* exactly those of the user's tasks whose flag is true (false), so that the two
\* filtered lists partition the unfiltered one.
C12_ListIsExactlyOwnTasks ==
    \A h \in Headers : \A g \in get_current_user(h) :
        g.ok =>
            LET own == {t \in tasks : t.user_id = g.user}
            IN  /\ \A c \in Filters :
                      /\ list_tasks_ordered(g.user, OwnPath(g.user), c) # {}
                      /\ \A r \in list_tasks_ordered(g.user, OwnPath(g.user), c) :
                            /\ r.status = 200
                            /\ Rows(r.listing) =
                                   {t \in own : c = {} \/ Flag(t) \in c}
                            /\ Len(r.listing) = Cardinality(Rows(r.listing))
                            /\ \A i \in 1..Len(r.listing) - 1 :
                                   r.listing[i].created_at >= r.listing[i + 1].created_at
                /\ variant = "int" =>
                      \A all \in Listings(g.user, {}), done \in Listings(g.user, {TRUE}),
                         open \in Listings(g.user, {FALSE}) :
                          /\ Rows(done) \cup Rows(open) = Rows(all)
                          /\ Rows(done) \cap Rows(open) = {}

\* A list of two tasks created at different times, newest first, while another
\* user owns a task too
C12_Witness ==
    /\ resp.kind = "list" /\ resp.status = 200 /\ resp.completed = {}
    /\ Len(resp.listing) = 2
    /\ \E a \in TaskById(resp.listing[1]), b \in TaskById(resp.listing[2]) :
          a.created_at > b.created_at /\ a.user_id = resp.auth /\ b.user_id = resp.auth

\* A task id no row has: ids are handed out in order and never reused
AbsentId == task_seq + 1

\* The statuses the request recorded in resp gets when it addresses task id
AnswersFor(id) ==
    CASE resp.kind = "get"    -> {get_task(resp.auth, resp.path_user, id).status}
      [] resp.kind = "toggle" -> {toggle_route(resp.auth, resp.path_user, id).status}
      [] resp.kind = "delete" -> {delete_task_route(resp.auth, resp.path_user, id).status}
      [] resp.kind = "update" ->
             {update_task_route(resp.auth, resp.path_user, id, b).status :
                  b \in {x \in AllUpdateBodies : DOMAIN x = resp.fields}}
      [] OTHER -> {}

\* C13: in both variants, when an authenticated caller addresses, on its own
\* path, a task that is stored and owned by another user, the response is the
\* one the same request gets for a task id that is not stored (404, or 422
\* when the update body is invalid), so that the tasks of other users do not
\* show.
C13_ForeignTaskLooksAbsent ==
    (/\ resp.kind \in {"get", "update", "toggle", "delete"}
     /\ resp.auth # 0
     /\ resp.path_user = OwnPath(resp.auth)
     /\ \E t \in TaskById(resp.task_id) : t.user_id # resp.auth)
        => /\ resp.status \in {404, 422}
           /\ resp.status \in AnswersFor(AbsentId)

\* C14 as stated: in both variants a create request without a title is
\* answered 422, and the task an accepted create request stored has a title
\* that is not empty and has no blank at either end (a title that is empty or
\* all blanks was rejected, any other was trimmed).
C14_CreateStoresTrimmedTitle ==
    /\ (resp.kind = "create" /\ "title" \notin resp.fields) => resp.status = 422
    /\ (resp.kind = "create" /\ resp.status = 201) =>
           \E t \in TaskById(task_seq) :
               /\ t.title # <<>>
               /\ Strip(t.title) = t.title

\* The values the status column of the UUID variant is meant to hold
allowed_statuses == {"pending", "completed"}

\* C15: in the UUID variant, in every reachable state every stored task has the
\* status "pending" or "completed", and an update request of an authenticated
\* user whose status is any other string is answered 422 and leaves the tasks
\* table as it was, whatever task and path it names and whatever else it
\* carries; an update whose status is null changes no stored status either.
C15_StatusIsPendingOrCompleted ==
    variant = "uuid" =>
        /\ \A t \in tasks : t.status \in allowed_statuses
        /\ \A h \in Headers : \A g \in get_current_user(h) :
               g.ok =>
                   \A p \in PathUsers, id \in TaskIdsIn, b \in AllUpdateBodies :
                       LET r == update_task_route(g.user, p, id, b)
                       IN  /\ (IsStr(b, "status") /\ b.status.v \notin allowed_statuses)
                                => (r.status = 422 /\ r.tasks = tasks)
                           /\ IsNull(b, "status") =>
                                \A t \in r.tasks : t.status \in allowed_statuses

\* The owner of a stored task sent an update that carried nothing but a status
\* and was answered 422
C15_Witness ==
    /\ variant = "uuid"
    /\ resp.kind = "update" /\ resp.status = 422 /\ resp.fields = {"status"}
    /\ resp.path_user = resp.auth
    /\ \E t \in TaskById(resp.task_id) : t.user_id = resp.auth

\* Passwords around the rule of SignupRequest: seven characters, no uppercase
\* letter, no lowercase letter, no digit, 72 characters and 73
Filled(n) == [i \in 1..n |-> IF i = 1 THEN "A" ELSE IF i = 2 THEN "1" ELSE "b"]
NoLowerPass == <<"A", "X", "A", "X", "A", "X", "A", "1">>
NoDigitPass == <<"A", "b", "c", "d", "e", "f", "g", "x">>
SignupPasswords ==
    Passwords \cup {Filled(7), NoLowerPass, NoDigitPass, Filled(72), Filled(73)}

\* The rule as the documentation of the signup endpoint words it
Strong(pw) ==
    /\ Len(pw) \in 8..72
    /\ \E i \in DOMAIN pw : pw[i] \in Upper
    /\ \E i \in DOMAIN pw : pw[i] \in Lower
    /\ \E i \in DOMAIN pw : pw[i] \in Digit

RemovedIds == {id \in 1..user_seq : UserById(id) = {}}

\* The tokens the auth routes issued for user id, whenever and for whatever
\* email, and the tokens of the requests, that are not expired
UnexpiredTokensOf(id) ==
    LiveTokensOf(id)
    \cup {h \in {IF variant = "uuid" THEN create_jwt_token(id, e, t1, t2)
                 ELSE create_access_token(id, e, t1) :
                     e \in Emails, t1 \in 0..now, t2 \in 0..now} :
              h.claims.exp >= now}

\* C17: in both variants, in every reachable state, a token that is signed
\* with the secret, is not expired and names a user who was removed from the
\* users table is rejected by the guard of the task endpoints with 401, after
\* the token was verified and the user looked up and before any task is read or
\* written; and a request that was rejected had read and written no task.
C17_RemovedUserIsUnauthorized ==
    /\ \A id \in RemovedIds : \A h \in UnexpiredTokensOf(id) :
           \A g \in get_current_user(h) :
               /\ ~g.ok /\ g.status = 401
               /\ g.steps = {"verify", "user_read"}
    /\ resp.kind = "rejected" => resp.steps \cap {"task_read", "task_write"} = {}

\* Every id was given out, and a request with a live token was rejected after
\* the user was looked up: the token names a removed user
C17_Witness ==
    /\ user_seq = MaxUsers /\ RemovedIds # {}
    /\ resp.kind = "rejected" /\ resp.cred = "live" /\ resp.status = 401
    /\ "user_read" \in resp.steps

\* The configured time-to-live of a token
TimeToLive == IF variant = "uuid" THEN JWT_EXPIRE_MINUTES ELSE JWT_EXPIRY_DAYS

\* C18 as stated: in both variants the token a signup or signin returned
\* carries the user's id as a string in `sub`, the time of issue in `iat` and
\* that time plus the time-to-live in `exp`, and the guard accepts it now, at
\* every time up to `exp`, and at no time after.
C18_TokenCarriesIssueAndExpiry ==
    (resp.kind \in {"signup", "signin"} /\ resp.token # NoToken) =>
        LET c == resp.token.claims
        IN  /\ \E u \in users : c.sub = JStr(Str(variant, u.id))
            /\ Has(c, "iat") /\ Has(c, "exp")
            /\ c.iat = now
            /\ c.exp = c.iat + TimeToLive
            /\ \A t \in 0..(MaxTime + TimeToLive + 1) :
                   jwt_decode_ok(resp.token, t, TRUE) <=> t <= c.exp

\* The workers that served a signup for email e to its end
SignedUp(e) == {w \in Workers : inflight[w].pc = "done" /\ inflight[w].email = e}

\* C19 as stated: in both variants, when two signup requests with the same
\* email were served at the same time, whatever the order of their existence
\* checks and inserts, one user with that email is stored, one of the requests
\* was answered 201 and the other 400.
C19_ConcurrentSignupOneConflict ==
    \A e \in Emails :
        \A w1 \in SignedUp(e) : \A w2 \in SignedUp(e) \ {w1} :
            /\ Cardinality(UserByEmail(e)) = 1
            /\ {inflight[w1].status, inflight[w2].status} = {201, 400}

\* The toggles of task id that were answered 200
Toggled(id) ==
    {w \in Workers : /\ inflight[w].pc = "done" /\ inflight[w].status = 200
                     /\ inflight[w].task_id = id}

\* C20 as stated: in both variants, however toggle requests on a task
\* interleave, the task (created not completed) is completed exactly when the
\* number of toggles answered 200 is odd.
C20_NoToggleIsLost ==
    \A t \in tasks : Flag(t) <=> Cardinality(Toggled(t.id)) % 2 = 1

\* C21: in both variants, after every step of the API each stored task is the
\* only row with its id and its user_id is the id of a stored user, and a task
\* that was stored before the step has the id, user_id and created_at it had,
\* whatever update (with whatever fields in its body) or toggle the step was.
C21_OwnerAndCreationAreFixed ==
    [][/\ \A t \in tasks' :
              /\ \E u \in users' : u.id = t.user_id
              /\ \A o \in tasks' : o.id = t.id => o = t
       /\ \A t \in tasks : \A o \in tasks' :
              o.id = t.id => (o.user_id = t.user_id /\ o.created_at = t.created_at)]_vars

\* The owner's update that named another user_id, id and created_at was
\* accepted, at a time later than the creation of the task
C21_Witness ==
    /\ resp.kind = "update" /\ resp.status = 200
    /\ {"user_id", "id", "created_at"} \subseteq resp.fields
    /\ \E t \in TaskById(resp.task_id) :
           t.user_id = resp.auth /\ t.updated_at > t.created_at

\* C22 as stated, for the updates: in both variants the task an accepted
\* update with a title in its body left in the store has a title that is a
\* string and is not empty after trimming (an update whose title is empty, all
\* blanks or null was not accepted).
C22_UpdateKeepsTitleNonEmpty ==
    (resp.kind = "update" /\ resp.status = 200 /\ "title" \in resp.fields) =>
        \A t \in TaskById(resp.task_id) :
            /\ t.title # None
            /\ Strip(t.title) # <<>>

\* C23: in both variants, after every step in which an update (with or
\* without fields in its body) or a toggle was answered 200, the updated_at of
\* the task it named is the time of the request, which is not earlier than the
\* updated_at the task had before the step and not earlier than its created_at.
\* (The step of a request is one that leaves the clock: time passes between
\* the requests.)
C23_MutationStampsUpdatedAt ==
    [][(resp'.kind \in {"update", "toggle"} /\ resp'.status = 200 /\ now' = now) =>
           /\ \E new \in tasks' : new.id = resp'.task_id
           /\ \A new \in tasks' :
                  new.id = resp'.task_id =>
                      /\ new.updated_at = now'
                      /\ new.updated_at >= new.created_at
                      /\ \A old \in tasks :
                             old.id = new.id => new.updated_at >= old.updated_at]_vars

\* An update with an empty body was answered 200 after the clock had moved on
\* from the task's creation, and the task carries the time of the request
C23_Witness ==
    /\ resp.kind = "update" /\ resp.status = 200 /\ resp.fields = {}
    /\ \E t \in TaskById(resp.task_id) :
           t.updated_at = now /\ now > t.created_at

\* The steps of a request that touch the tasks table
TaskStoreSteps == {"task_read", "task_write"}

\* C24: in both variants, whatever header a request to a task endpoint
\* carries, a guard that rejects it (no token, a malformed, wrongly signed or
\* expired one, or one of an unknown user) has touched no task; the last
\* request, if it was rejected, read and wrote no task, and if it read or wrote
\* a task, its token had been verified and its user found before, and that
\* user is stored.
C24_GuardRunsFirst ==
    /\ \A h \in AllHeaders : \A g \in get_current_user(h) :
           /\ ~g.ok => g.steps \cap TaskStoreSteps = {}
           /\ g.ok => (Registered(g.user) /\ g.steps = {"verify", "user_read"})
    /\ resp.kind = "rejected" =>
           (~resp.valid /\ resp.auth = 0 /\ resp.steps \cap TaskStoreSteps = {})
    /\ resp.steps \cap TaskStoreSteps # {} =>
           /\ resp.valid /\ Registered(resp.auth)
           /\ {"verify", "user_read"} \subseteq resp.steps
           /\ resp.kind \in {"list", "create", "get", "update", "toggle", "delete"}

\* A request with a wrongly signed token was rejected while a task was stored
C24_Witness ==
    /\ resp.kind = "rejected" /\ resp.cred = "forged" /\ resp.status = 401
    /\ tasks # {}

\* The payloads that differ in nothing but the email claim: without it, and
\* with each email
PayloadsOf(sub, exp) ==
    {[sub |-> sub, exp |-> exp]}
    \cup {[sub |-> sub, exp |-> exp, email |-> e] : e \in Emails}

\* C25: in both variants, in every reachable state, tokens with the same
\* signature key, subject and expiry and with different or no email claims get
\* the same outcome from the guard; the user a token authenticates is the one
\* its subject names, whoever has the email it carries, and so the task a get
\* request returned is owned by the user its subject names.
C25_EmailClaimIsNotTrusted ==
    /\ \A sub \in SubjectValues, exp \in {now - 1, now, now + 1},
          key \in {BETTER_AUTH_SECRET, WrongSecret} :
           \A c1 \in PayloadsOf(sub, exp), c2 \in PayloadsOf(sub, exp) :
               /\ get_current_user(jwt_encode(c1, key))
                      = get_current_user(jwt_encode(c2, key))
               /\ \A g \in get_current_user(jwt_encode(c1, key)) :
                      g.ok => sub = JStr(Str(variant, g.user))
    /\ (resp.kind = "get" /\ resp.status = 200) =>
           \A t \in TaskById(resp.task_id) : t.user_id = resp.auth

\* A get request whose token named one user and carried the email of another
\* stored user returned the task of the user it named
C25_Witness ==
    /\ resp.kind = "get" /\ resp.status = 200
    /\ \E u \in users : u.id = resp.auth /\ u.email # resp.email
    /\ \E o \in users : o.id # resp.auth /\ o.email = resp.email
    /\ \E t \in TaskById(resp.task_id) : t.user_id = resp.auth

\* Worker w1 committed an update of a task first, while worker w2 had loaded
\* the task for its own update, and w2 committed next, the task still stored
UpdatesInterleaved(w1, w2) ==
    /\ w1 # w2
    /\ inflight[w1].pc = "done" /\ inflight[w2].pc = "done"
    /\ inflight[w1].op = "update" /\ inflight[w2].op = "update"
    /\ inflight[w1].task_id = inflight[w2].task_id
    /\ inflight[w1].order = 1 /\ inflight[w1].overlap /\ inflight[w1].status = 200
    /\ inflight[w2].order = 2 /\ inflight[w2].before >= 0

\* C26 as stated: in both variants, when two updates of a task by its owner
\* interleave (both load, then both commit), the second is answered 200 as the
\* first was, and as long as no later request has changed the task every
\* field both bodies set has the value of the body that was committed last.
C26_LastWriterWins ==
    \A w1 \in Workers : \A w2 \in Workers :
        UpdatesInterleaved(w1, w2) =>
            /\ inflight[w2].status = 200
            /\ \A t \in TaskById(inflight[w2].task_id) :
                   Cardinality(Committed) = 2 =>
                       \A f \in DOMAIN inflight[w1].body \cap DOMAIN inflight[w2].body
                                   \cap UpdateFields(variant) :
                           t[f] = Sent(f, inflight[w2].body[f])

\* The statuses of a request that failed
FailureStatuses == {400, 401, 403, 404, 422}

\* C27: in both variants, every step whose response is a failure (400, 401,
\* 403, 404 or 422) or the response of a signin, a list or a get request
\* leaves the users table and the tasks table exactly as they were: no row is
\* added, changed (updated_at included) or removed.
C27_FailuresAndReadsChangeNothing ==
    [][(resp'.status \in FailureStatuses \/ resp'.kind \in {"signin", "list", "get"})
           => (users' = users /\ tasks' = tasks)]_vars

\* A get request returned a task after the clock had moved on from the last
\* change of the task
C27_Witness ==
    /\ resp.kind = "get" /\ resp.status = 200
    /\ \E t \in TaskById(resp.task_id) : t.updated_at < now
    /\ users # {}

\* The worker whose commit was the last one
LastCommitted == {w \in Committed : inflight[w].order = Cardinality(Committed)}

\* C28 as stated: in both variants no stored task has an updated_at earlier
\* than its created_at, and after the last commit of an update or a toggle that
\* was answered 200, the updated_at of the task is not earlier than the one the
\* commit found, however the requests on the task interleaved.
C28_UpdatedAtNeverDecreases ==
    /\ \A t \in tasks : t.updated_at >= t.created_at
    /\ \A w \in LastCommitted :
           inflight[w].status = 200 =>
               \A t \in TaskById(inflight[w].task_id) :
                   t.updated_at >= inflight[w].before

\* C29 as stated: in both variants a request to a task endpoint that presented
\* a bearer token and was not authenticated was answered 401, whatever the
\* token: one without a `sub` claim and one whose `sub` is no user id included.
C29_EveryRejectionIs401 ==
    (resp.kind = "rejected" /\ resp.cred # "none") => resp.status = 401

\* The updates and toggles whose commit came after the task they had loaded
\* was deleted
CommittedAfterDelete ==
    {w \in Workers : inflight[w].pc = "done" /\ inflight[w].before < 0}

\* C30 as stated: in both variants an update or a toggle that had loaded a task
\* before its delete and committed after it has not stored the task again and
\* was answered 404.
C30_CommitAfterDeleteIsNotFound ==
    \A w \in CommittedAfterDelete :
        /\ TaskById(inflight[w].task_id) = {}
        /\ inflight[w].status = 404

====
